---- MODULE Spec2Model ----
(***************************************************************************)
(* jsonschema2md: conversion of a JSON Schema tree into Markdown lines.    *)
(*                                                                         *)
(* JSON values are tagged records [k, v]:                                  *)
(*   dict  v = sequence of <<key, value>> pairs (insertion ordered mapping)*)
(*   list  v = sequence of values                                          *)
(*   str   v = sequence of text chunks                                     *)
(*   int   v = integer          bool  v = BOOLEAN                          *)
(* A text (a str value, an output line) is a sequence of chunks.  Every    *)
(* whitespace character, every one of . ? ! ; / and the bullet characters  *)
(* - and * that open a line are chunks of their own; any other chunk is a  *)
(* run of characters holding none of these.  The backquote character is    *)
(* written BT, the code fence of three backquotes FENCE.                   *)
(***************************************************************************)
EXTENDS Integers, Sequences, FiniteSets, TLC

VARIABLES
    pc,                 \* position of the caller: "start" before the call, "done" after
    examples_as_yaml,   \* Parser.examples_as_yaml
    show_examples,      \* Parser.show_examples (<<>> while no parser exists)
    arg,                \* the arguments of the call under study
    ret,                \* what the call returned or raised
    new_lines           \* the list handed to append_line

vars == <<pc, examples_as_yaml, show_examples, arg, ret, new_lines>>

----------------------------------------------------------------------------
(* Bounds *)

MaxArgLen == 3      \* longest show_examples argument drawn from the alphabet
MaxLines == 3       \* longest list built by append_line
MaxIndent == 2      \* widest indentation of a line handed to append_line
MaxProps == 2       \* most entries of one properties mapping
MaxBranches == 2    \* most branches of one allOf list

----------------------------------------------------------------------------
(* JSON values *)

JDict(pairs) == [k |-> "dict", v |-> pairs]
JList(elems) == [k |-> "list", v |-> elems]
JStr(chunks) == [k |-> "str", v |-> chunks]
JInt(n) == [k |-> "int", v |-> n]
JBool(b) == [k |-> "bool", v |-> b]

isdict(x) == x.k = "dict"
islist(x) == x.k = "list"

\* key in obj
Has(obj, key) == \E i \in 1..Len(obj.v) : obj.v[i][1] = key
\* obj[key]
Get(obj, key) == obj.v[CHOOSE i \in 1..Len(obj.v) : obj.v[i][1] = key][2]
\* list(obj.keys())
Keys(obj) == [i \in 1..Len(obj.v) |-> obj.v[i][1]]

\* bool(x): Python truthiness
Truthy(x) ==
    CASE x.k = "bool" -> x.v
      [] x.k = "int" -> x.v # 0
      [] OTHER -> x.v # <<>>

\* name in container: key membership for a mapping, element membership for a
\* list; any other container makes the conversion fail with a TypeError.
PyInOk(x) == x.k \in {"dict", "list"}
PyIn(name, x) ==
    IF x.k = "dict" THEN Has(x, name)
    ELSE \E i \in 1..Len(x.v) : x.v[i].k = "str" /\ x.v[i].v = <<name>>

\* str(x) inside an f-string
PyStr(x) ==
    CASE x.k = "str" -> x.v
      [] x.k = "int" -> <<ToString(x.v)>>
      [] x.k = "bool" -> IF x.v THEN <<"True">> ELSE <<"False">>
      [] x.k = "list" -> <<"[...]">>
      [] OTHER -> <<"{...}">>

RECURSIVE Flatten(_)
Flatten(ss) == IF ss = <<>> THEN <<>> ELSE Head(ss) \o Flatten(Tail(ss))

RECURSIVE JoinWith(_, _)
JoinWith(sep, ss) ==
    IF ss = <<>> THEN <<>>
    ELSE IF Len(ss) = 1 THEN ss[1]
    ELSE ss[1] \o sep \o JoinWith(sep, Tail(ss))

\* json.dumps(x) on one line
RECURSIVE json_dumps(_)
json_dumps(x) ==
    CASE x.k = "str" -> <<"\"">> \o x.v \o <<"\"">>
      [] x.k = "int" -> <<ToString(x.v)>>
      [] x.k = "bool" -> IF x.v THEN <<"true">> ELSE <<"false">>
      [] x.k = "list" ->
            <<"[">> \o JoinWith(<<",", " ">>, [i \in 1..Len(x.v) |-> json_dumps(x.v[i])])
                \o <<"]">>
      [] OTHER ->
            <<"{">> \o JoinWith(<<",", " ">>,
                         [i \in 1..Len(x.v) |->
                            <<"\"", x.v[i][1], "\":", " ">> \o json_dumps(x.v[i][2])])
                \o <<"}">>

----------------------------------------------------------------------------
(* Parser.__init__ *)

tab_size == 2

valid_show_examples_options == <<<<"a", "l", "l">>,
                                 <<"o", "b", "j", "e", "c", "t">>,
                                 <<"p", "r", "o", "p", "e", "r", "t", "i", "e", "s">>>>

LowerChar(c) ==
    CASE c = "A" -> "a" [] c = "L" -> "l" [] c = "O" -> "o" [] c = "B" -> "b"
      [] c = "J" -> "j" [] c = "E" -> "e" [] c = "C" -> "c" [] c = "T" -> "t"
      [] c = "P" -> "p" [] c = "R" -> "r" [] c = "I" -> "i" [] c = "S" -> "s"
      [] OTHER -> c

\* str.lower()
lower(s) == [i \in 1..Len(s) |-> LowerChar(s[i])]

Parser_init_exact(as_yaml, option) ==
    IF \E i \in 1..Len(valid_show_examples_options) :
            valid_show_examples_options[i] = option
    THEN [err |-> "none", examples_as_yaml |-> as_yaml, show_examples |-> option]
    ELSE [err |-> "ValueError", examples_as_yaml |-> as_yaml, show_examples |-> <<>>]

\* The parser fields after __init__(as_yaml, option), or the error it raises.
Parser_init(as_yaml, option) ==
    LET lowered == lower(option)
    IN  IF \E i \in 1..Len(valid_show_examples_options) :
                valid_show_examples_options[i] = lowered
        THEN [err |-> "none", examples_as_yaml |-> as_yaml, show_examples |-> lowered]
        ELSE [err |-> "ValueError", examples_as_yaml |-> as_yaml, show_examples |-> <<>>]

ModeAll == <<"a", "l", "l">>
ModeObject == <<"o", "b", "j", "e", "c", "t">>
ModeProperties == <<"p", "r", "o", "p", "e", "r", "t", "i", "e", "s">>

----------------------------------------------------------------------------
(* Parser.append_line *)

IsWs(c) == c \in {" ", "\n", "\t"}

\* str.lstrip()
RECURSIVE lstrip(_)
lstrip(s) == IF s # <<>> /\ IsWs(Head(s)) THEN lstrip(Tail(s)) ELSE s

\* s[:2]
Take2(s) == SubSeq(s, 1, IF Len(s) < 2 THEN Len(s) ELSE 2)

\* len(s) - len(s.lstrip())
LeadingWs(s) == Len(s) - Len(lstrip(s))

BulletPrefixes == {<<"-", " ">>, <<"*", " ">>}

BlankLine == <<"\n">>

BlankNeeded_flipped(line, prev) ==
    LeadingWs(prev) # LeadingWs(line) /\ Take2(lstrip(prev)) \notin BulletPrefixes

\* The test of append_line: `a != b and not prev.lstrip()[:2] not in [...]`,
\* which Python reads as `a != b and not (prev.lstrip()[:2] not in [...])`.
BlankNeeded(line, prev) ==
    LeadingWs(prev) # LeadingWs(line) /\ ~(Take2(lstrip(prev)) \notin BulletPrefixes)

\* new_lines after append_line(line, new_lines)
append_line(line, lines) ==
    IF lines # <<>>
    THEN IF BlankNeeded(line, lines[Len(lines)])
         THEN lines \o <<BlankLine, line>>
         ELSE Append(lines, line)
    ELSE <<line>>

----------------------------------------------------------------------------
(* Parser._construct_description_line *)

BT == "<backquote>"
FENCE == "<backquote><backquote><backquote>"

SentenceEnd == {".", "?", "!", ";"}

\* re.search(r"[.?!;]$", text): $ matches at the end and before a final newline
EndsSentence(text) ==
    \/ text # <<>> /\ text[Len(text)] \in SentenceEnd
    \/ Len(text) >= 2 /\ text[Len(text)] = "\n" /\ text[Len(text) - 1] \in SentenceEnd

\* os.path.basename(dest): what follows the last "/"
RECURSIVE basename(_)
basename(dest) ==
    IF \E i \in 1..Len(dest) : dest[i] = "/"
    THEN basename(Tail(dest))
    ELSE dest

\* urllib.parse.quote(text): letters, digits and _ . - ~ / are kept
quote(text) == [i \in 1..Len(text) |-> IF text[i] = " " THEN "%20" ELSE text[i]]

Opt(cond, frag) == IF cond THEN <<frag>> ELSE <<>>

LengthSentence(obj) ==
    <<"Length must be ">> \o
    (IF Has(obj, "minItems") /\ ~Has(obj, "maxItems")
        THEN <<"at least ">> \o PyStr(Get(obj, "minItems")) \o <<".">>
     ELSE IF Has(obj, "maxItems") /\ ~Has(obj, "minItems")
        THEN <<"at most ">> \o PyStr(Get(obj, "maxItems")) \o <<".">>
     ELSE IF Get(obj, "minItems") = Get(obj, "maxItems")
        THEN <<"equal to ">> \o PyStr(Get(obj, "minItems")) \o <<".">>
     ELSE <<"between ">> \o PyStr(Get(obj, "minItems")) \o <<" and ">>
            \o PyStr(Get(obj, "maxItems")) \o <<" (inclusive)", ".">>)

\* The sentence for one of "additional", "unevaluated": `if obj[key]:` is the
\* value's truthiness, whatever its type.
ExtraSentence(obj, extra_props) ==
    LET key == extra_props \o "Properties"
    IN  IF Has(obj, key)
        THEN IF Truthy(Get(obj, key))
             THEN <<<<"Can contain ", extra_props, " properties", ".">>>>
             ELSE <<<<"Cannot contain ", extra_props, " properties", ".">>>>
        ELSE <<>>

RefSentence(obj) ==
    LET raw == Get(obj, "$ref").v
        dest == IF raw # <<>> /\ raw[Len(raw)] = ".json"
                THEN SubSeq(raw, 1, Len(raw) - 1) ELSE raw
    IN  <<"Includes all of *[">> \o basename(dest) \o <<"](">> \o quote(dest)
            \o <<".md)*", ".">>

\* The list of sentences of one node, each a text.
_construct_description_line(obj, add_type) ==
       Opt(Has(obj, "description"),
           LET d == PyStr(Get(obj, "description"))
           IN  d \o (IF EndsSentence(d) THEN <<>> ELSE <<".">>))
    \o Opt(add_type /\ Has(obj, "type"),
           <<"Must be of type *">> \o PyStr(Get(obj, "type")) \o <<"*", ".">>)
    \o Opt(Has(obj, "minimum"),
           <<"Minimum: ", BT>> \o PyStr(Get(obj, "minimum")) \o <<BT, ".">>)
    \o Opt(Has(obj, "exclusiveMinimum"),
           <<"Exclusive minimum: ", BT>> \o PyStr(Get(obj, "exclusiveMinimum")) \o <<BT, ".">>)
    \o Opt(Has(obj, "maximum"),
           <<"Maximum: ", BT>> \o PyStr(Get(obj, "maximum")) \o <<BT, ".">>)
    \o Opt(Has(obj, "exclusiveMaximum"),
           <<"Exclusive maximum: ", BT>> \o PyStr(Get(obj, "exclusiveMaximum")) \o <<BT, ".">>)
    \o (IF Has(obj, "minItems") \/ Has(obj, "maxItems")
        THEN <<LengthSentence(obj)>> ELSE <<>>)
    \o Opt(Has(obj, "enum"),
           <<"Must be one of: ", BT>> \o json_dumps(Get(obj, "enum")) \o <<BT, ".">>)
    \o Opt(Has(obj, "const"),
           <<"Must be: ", BT>> \o json_dumps(Get(obj, "const")) \o <<BT, ".">>)
    \o ExtraSentence(obj, "additional")
    \o ExtraSentence(obj, "unevaluated")
    \o (IF Has(obj, "$ref") THEN <<RefSentence(obj)>> ELSE <<>>)
    \o Opt(Has(obj, "default"),
           <<"Default: ", BT>> \o json_dumps(Get(obj, "default")) \o <<BT, ".">>)

----------------------------------------------------------------------------
(* Parser._construct_examples *)

Spaces(n) == [i \in 1..n |-> " "]

PrefixFirst(p, ls) == <<p \o Head(ls)>> \o Tail(ls)
CommaLast(ls, c) ==
    IF c THEN SubSeq(ls, 1, Len(ls) - 1) \o <<Append(ls[Len(ls)], ",")>> ELSE ls

\* The lines of json.dumps(x, indent=4); pad is the indentation of the line
\* that opens x.
RECURSIVE json_lines(_, _)
json_lines(x, pad) ==
    LET n == Len(x.v)
        inner == pad \o Spaces(4)
    IN  IF x.k \notin {"list", "dict"} THEN <<json_dumps(x)>>
        ELSE IF n = 0 THEN <<IF x.k = "list" THEN <<"[]">> ELSE <<"{}">>>>
        ELSE IF x.k = "list"
        THEN <<<<"[">>>>
             \o Flatten([i \in 1..n |->
                    CommaLast(PrefixFirst(inner, json_lines(x.v[i], inner)), i < n)])
             \o <<pad \o <<"]">>>>
        ELSE <<<<"{">>>>
             \o Flatten([i \in 1..n |->
                    CommaLast(PrefixFirst(inner \o <<"\"", x.v[i][1], "\":", " ">>,
                                          json_lines(x.v[i][2], inner)), i < n)])
             \o <<pad \o <<"}">>>>

\* The lines of yaml.dump(x, sort_keys=False, indent=4) for a scalar (which
\* yaml ends with the document end marker) and for a flat list or mapping.
yaml_scalar(x) == IF x.k = "str" THEN x.v ELSE json_dumps(x)
yaml_lines(x) ==
    IF x.k = "list"
    THEN IF x.v = <<>> THEN <<<<"[]">>>>
         ELSE [i \in 1..Len(x.v) |-> <<"-", " ">> \o yaml_scalar(x.v[i])]
    ELSE IF x.k = "dict"
    THEN IF x.v = <<>> THEN <<<<"{}">>>>
         ELSE [i \in 1..Len(x.v) |-> <<x.v[i][1], ":", " ">> \o yaml_scalar(x.v[i][2])]
    ELSE <<yaml_scalar(x), <<"...">>>>

\* dump_json_with_line_head / dump_yaml_with_line_head: every line of the dump
\* behind line_head, the line ends kept between them.
dump_with_line_head(as_yaml, x, line_head) ==
    LET ls == IF as_yaml THEN yaml_lines(x) ELSE json_lines(x, <<>>)
    IN  JoinWith(<<"\n">>, [i \in 1..Len(ls) |-> line_head \o ls[i]])

ExamplesHeader(example_indentation) ==
    <<"\n">> \o example_indentation \o <<"Examples:", "\n">>

ExampleBlock(as_yaml, example, example_indentation) ==
    example_indentation \o <<FENCE, IF as_yaml THEN "yaml" ELSE "json", "\n">>
        \o dump_with_line_head(as_yaml, example, example_indentation)
        \o <<"\n">> \o example_indentation \o <<FENCE, "\n", "\n">>

_construct_examples(obj, indent_level, add_header) ==
    IF Has(obj, "examples")
    THEN LET example_indentation == Spaces(tab_size * indent_level)
             examples == Get(obj, "examples").v
         IN  (IF add_header THEN <<ExamplesHeader(example_indentation)>> ELSE <<>>)
             \o [i \in 1..Len(examples) |->
                    ExampleBlock(examples_as_yaml, examples[i], example_indentation)]
    ELSE <<>>

----------------------------------------------------------------------------
(* Parser._parse_object *)

Ok(lines) == [err |-> "none", lines |-> lines]
Raise(e) == [err |-> e, lines |-> <<>>]

\* One call or statement of a loop body.  name and path are <<>> for None.
ParseStep(obj, name, name_monospace, indent_level, path, required) ==
    [op |-> "parse", obj |-> obj, name |-> name, mono |-> name_monospace,
     level |-> indent_level, path |-> path, required |-> required, line |-> <<>>]
LineStep(line) ==
    [op |-> "line", obj |-> JBool(FALSE), name |-> <<>>, mono |-> FALSE,
     level |-> 0, path |-> <<>>, required |-> FALSE, line |-> line]
RaiseStep(e) ==
    [op |-> "raise", obj |-> JBool(FALSE), name |-> <<e>>, mono |-> FALSE,
     level |-> 0, path |-> <<>>, required |-> FALSE, line |-> <<>>]

\* line.replace("\n\n", "<br>" + indentation_items)
RECURSIVE ReplaceParagraphs(_, _)
ReplaceParagraphs(text, indentation_items) ==
    IF text = <<>> THEN <<>>
    ELSE IF Len(text) >= 2 /\ text[1] = "\n" /\ text[2] = "\n"
    THEN <<"<br>">> \o indentation_items
            \o ReplaceParagraphs(SubSeq(text, 3, Len(text)), indentation_items)
    ELSE <<Head(text)>> \o ReplaceParagraphs(Tail(text), indentation_items)

\* f"{name}": None prints as the word None
NameText(name) == IF name = <<>> THEN "None" ELSE name[1]

RequiredMarker == ", required"

OptionalFormat(obj) ==
    IF Has(obj, "format") THEN <<", format: ">> \o PyStr(Get(obj, "format")) ELSE <<>>

ObjType(obj, name, required) ==
    IF ~Has(obj, "type") THEN <<>>
    ELSE IF name = <<>>
    THEN <<"*">> \o PyStr(Get(obj, "type")) \o OptionalFormat(obj) \o <<"*">>
    ELSE <<" ", "*(">> \o PyStr(Get(obj, "type")) \o OptionalFormat(obj)
            \o (IF required THEN <<RequiredMarker>> ELSE <<>>) \o <<")*">>

NameFormatted(name, name_monospace) ==
    IF name = <<>> THEN <<>>
    ELSE IF name_monospace THEN <<"**", BT, name[1], BT, "**">>
    ELSE <<"**", name[1], "**">>

Anchor(path) ==
    IF path # <<>>
    THEN <<"<a id=\"">> \o quote(JoinWith(<<"/">>, [i \in 1..Len(path) |-> <<path[i]>>]))
            \o <<"\"></a>">>
    ELSE <<>>

\* The bullet line of an object node.
NodeLine(obj, name, name_monospace, indent_level, path, required) ==
    LET indentation_items == Spaces(tab_size * (indent_level + 1))
        description_line_base == _construct_description_line(obj, FALSE)
        description_line ==
            JoinWith(<<" ">>, [i \in 1..Len(description_line_base) |->
                ReplaceParagraphs(description_line_base[i], indentation_items)])
    IN  Spaces(tab_size * indent_level) \o <<"-", " ">> \o Anchor(path)
            \o NameFormatted(name, name_monospace) \o ObjType(obj, name, required)
            \o description_line \o <<"\n">>

\* The bullet line of a list node.
ListLine(name, indent_level) ==
    Spaces(tab_size * indent_level) \o <<"-", " ", "**", NameText(name), "**:", "\n">>

\* for x in value
Iter(value) == IF islist(value) THEN value.v
               ELSE [i \in 1..Len(value.v) |-> JStr(<<value.v[i][1]>>)]

schema_composition_keyword_map ==
    <<<<"allOf", "All of">>, <<"anyOf", "Any of">>, <<"oneOf", "One of">>>>

Capitalize(keyword) ==
    CASE keyword = "items" -> "Items"
      [] keyword = "definitions" -> "Definitions"
      [] keyword = "$defs" -> "$defs"
      [] keyword = "additional" -> "Additional"
      [] keyword = "unevaluated" -> "Unevaluated"

CompositionSteps(obj, indent_level) ==
    Flatten([j \in 1..Len(schema_composition_keyword_map) |->
        LET key == schema_composition_keyword_map[j][1]
            label == schema_composition_keyword_map[j][2]
        IN  IF Has(obj, key)
            THEN <<LineStep(Spaces(tab_size * (indent_level + 1))
                                \o <<"-", " ", "**", label, "**", "\n">>)>>
                 \o [i \in 1..Len(Iter(Get(obj, key))) |->
                        ParseStep(Iter(Get(obj, key))[i], <<>>, FALSE,
                                  indent_level + 2, <<>>, FALSE)]
            ELSE <<>>])

ItemsSteps(obj, indent_level) ==
    LET names == <<"items", "definitions", "$defs">>
    IN  Flatten([j \in 1..Len(names) |->
            IF Has(obj, names[j])
            THEN <<ParseStep(Get(obj, names[j]), <<Capitalize(names[j])>>, FALSE,
                             indent_level + 1, <<>>, FALSE)>>
            ELSE <<>>])

ExtraSteps(obj, indent_level) ==
    LET names == <<"additional", "unevaluated">>
    IN  Flatten([j \in 1..Len(names) |->
            LET property_name == names[j] \o "Properties"
            IN  IF Has(obj, property_name) /\ isdict(Get(obj, property_name))
                THEN <<ParseStep(Get(obj, property_name),
                                 <<Capitalize(names[j]) \o " properties">>, FALSE,
                                 indent_level + 1, <<>>, FALSE)>>
                ELSE <<>>])

\* name in obj.get("required", [])
InRequired(name, obj) == Has(obj, "required") /\ PyIn(name, Get(obj, "required"))

\* One step per entry of a mapping, each marked required by the array of holder.
EntrySteps(mapping, holder, indent_level) ==
    IF ~isdict(mapping) THEN <<RaiseStep("AttributeError")>>
    ELSE IF mapping.v # <<>> /\ Has(holder, "required") /\ ~PyInOk(Get(holder, "required"))
    THEN <<RaiseStep("TypeError")>>
    ELSE [i \in 1..Len(mapping.v) |->
            ParseStep(mapping.v[i][2], <<mapping.v[i][1]>>, TRUE, indent_level, <<>>,
                      InRequired(mapping.v[i][1], holder))]

PropertySteps(obj, indent_level) ==
    LET names == <<"properties", "patternProperties">>
    IN  Flatten([j \in 1..Len(names) |->
            IF Has(obj, names[j])
            THEN EntrySteps(Get(obj, names[j]), obj, indent_level + 1)
            ELSE <<>>])

ChildSteps_properties_first(obj, indent_level) ==
       PropertySteps(obj, indent_level)
    \o CompositionSteps(obj, indent_level)
    \o ItemsSteps(obj, indent_level)
    \o ExtraSteps(obj, indent_level)

\* What the body of _parse_object does after the node's own line, in order.
ChildSteps(obj, indent_level) ==
       CompositionSteps(obj, indent_level)
    \o ItemsSteps(obj, indent_level)
    \o ExtraSteps(obj, indent_level)
    \o PropertySteps(obj, indent_level)

NodeExamplesShown_object == show_examples \in {ModeAll, ModeObject}

\* self.show_examples in ["all", "properties"]
NodeExamplesShown == show_examples \in {ModeAll, ModeProperties}

RECURSIVE _parse_object(_, _, _, _, _, _, _)
RECURSIVE RunSteps(_, _)

\* The steps run one after the other on the one list; an error ends the run.
RunSteps(steps, res) ==
    IF steps = <<>> \/ res.err # "none" THEN res
    ELSE LET s == Head(steps)
         IN  RunSteps(Tail(steps),
                CASE s.op = "line" -> Ok(append_line(s.line, res.lines))
                  [] s.op = "raise" -> Raise(s.name[1])
                  [] OTHER -> _parse_object(s.obj, s.name, s.mono, res.lines,
                                            s.level, s.path, s.required))

_parse_object(obj, name, name_monospace, parsed_lines, indent_level, path, required) ==
    IF islist(obj)
    THEN RunSteps([i \in 1..Len(obj.v) |->
                      ParseStep(obj.v[i], <<>>, FALSE, indent_level + 1, <<>>, FALSE)],
                  Ok(append_line(ListLine(name, indent_level), parsed_lines)))
    ELSE IF ~isdict(obj) THEN Raise("TypeError")
    ELSE LET own == NodeLine(obj, name, name_monospace, indent_level, path, required)
             walked == RunSteps(ChildSteps(obj, indent_level),
                                Ok(append_line(own, parsed_lines)))
         IN  IF walked.err = "none" /\ NodeExamplesShown
             THEN Ok(walked.lines \o _construct_examples(obj, indent_level, TRUE))
             ELSE walked

----------------------------------------------------------------------------
(* Parser.parse_schema *)

RECURSIVE gather_props_branches_first(_, _)
RECURSIVE gather_props(_, _)

gather_props_branches_first(obj, prop) ==
       (IF Has(obj, "allOf")
        THEN Flatten([i \in 1..Len(Get(obj, "allOf").v) |->
                        gather_props(Get(obj, "allOf").v[i], prop)])
        ELSE <<>>)
    \o (IF Has(obj, prop) THEN <<Get(obj, prop)>> ELSE <<>>)

\* The values of prop of obj and of its allOf branches, obj's own first.
gather_props(obj, prop) ==
       (IF Has(obj, prop) THEN <<Get(obj, prop)>> ELSE <<>>)
    \o (IF Has(obj, "allOf")
        THEN Flatten([i \in 1..Len(Get(obj, "allOf").v) |->
                        gather_props(Get(obj, "allOf").v[i], prop)])
        ELSE <<>>)

Header(title) == <<"##", " ", title, "\n", "\n">>

EmitStep(lines) == [LineStep(<<>>) EXCEPT !.op = "emit", !.line = lines]

TitleSteps(schema) ==
       <<EmitStep(<<IF Has(schema, "title")
                    THEN <<"#", " ">> \o PyStr(Get(schema, "title")) \o <<"\n", "\n">>
                    ELSE <<"#", " ", "JSON Schema", "\n", "\n">>>>)>>
    \o (IF Has(schema, "description")
        THEN <<EmitStep(<<<<"*">> \o PyStr(Get(schema, "description"))
                            \o <<"*", "\n", "\n">>>>)>>
        ELSE <<>>)

RootItemsSteps(schema) ==
    LET groups == gather_props(schema, "items")
    IN  (IF groups # <<>> THEN <<EmitStep(<<Header("Items")>>)>> ELSE <<>>)
        \o [i \in 1..Len(groups) |->
                ParseStep(groups[i], <<"Items">>, FALSE, 0, <<>>, FALSE)]

RootExtraSteps(schema) ==
    LET names == <<"additional", "unevaluated">>
    IN  Flatten([j \in 1..Len(names) |->
            LET property_name == names[j] \o "Properties"
                title_ == Capitalize(names[j]) \o " Properties"
            IN  IF Has(schema, property_name) /\ isdict(Get(schema, property_name))
                THEN <<EmitStep(<<Header(title_)>>),
                       ParseStep(Get(schema, property_name), <<title_>>, FALSE, 0,
                                 <<>>, FALSE)>>
                ELSE <<>>])

RootPatternSteps(schema) ==
    LET groups == gather_props(schema, "patternProperties")
    IN  (IF groups # <<>> THEN <<EmitStep(<<Header("Pattern Properties")>>)>> ELSE <<>>)
        \o Flatten([i \in 1..Len(groups) |->
                IF ~isdict(groups[i]) THEN <<RaiseStep("AttributeError")>>
                ELSE [n \in 1..Len(groups[i].v) |->
                        ParseStep(groups[i].v[n][2], <<groups[i].v[n][1]>>, TRUE, 0,
                                  <<>>, FALSE)]])

\* Each gathered value is the properties mapping itself, and
\* `schema_object.get("required", [])` is asked of that mapping.
RootPropertiesSteps(schema) ==
    LET groups == gather_props(schema, "properties")
    IN  (IF groups # <<>> THEN <<EmitStep(<<Header("Properties")>>)>> ELSE <<>>)
        \o Flatten([i \in 1..Len(groups) |-> EntrySteps(groups[i], groups[i], 0)])

RootDefinitionsSteps(schema) ==
    LET names == <<"definitions", "$defs">>
    IN  Flatten([j \in 1..Len(names) |->
            IF Has(schema, names[j])
            THEN LET defs == Get(schema, names[j])
                 IN  IF ~isdict(defs) THEN <<RaiseStep("AttributeError")>>
                     ELSE [n \in 1..Len(defs.v) |->
                            ParseStep(defs.v[n][2], <<defs.v[n][1]>>, TRUE, 0,
                                      <<names[j], defs.v[n][1]>>, FALSE)]
            ELSE <<>>])

\* self.show_examples in ["all", "object"]
RootExamplesShown == show_examples \in {ModeAll, ModeObject}

RootExamplesSteps(schema) ==
    IF Has(schema, "examples") /\ RootExamplesShown
    THEN <<EmitStep(<<Header("Examples")>>),
           EmitStep(_construct_examples(schema, 0, FALSE))>>
    ELSE <<>>

\* The statements of parse_schema, in order.
RootSteps(schema) ==
       TitleSteps(schema)
    \o RootItemsSteps(schema)
    \o RootExtraSteps(schema)
    \o RootPatternSteps(schema)
    \o RootPropertiesSteps(schema)
    \o RootDefinitionsSteps(schema)
    \o RootExamplesSteps(schema)

\* Every element is parsed into a list of its own, which then extends
\* output_lines; an error ends the conversion.
RECURSIVE RunRoot(_, _)
RunRoot(steps, res) ==
    IF steps = <<>> \/ res.err # "none" THEN res
    ELSE LET s == Head(steps)
             r == _parse_object(s.obj, s.name, s.mono, <<>>, s.level, s.path, s.required)
         IN  RunRoot(Tail(steps),
                CASE s.op = "emit" -> Ok(res.lines \o s.line)
                  [] s.op = "raise" -> Raise(s.name[1])
                  [] OTHER -> IF r.err = "none" THEN Ok(res.lines \o r.lines) ELSE r)

parse_schema(schema_object_master) == RunRoot(RootSteps(schema_object_master), Ok(<<>>))

----------------------------------------------------------------------------
(* Constructing a parser *)

NoRet == [err |-> "pending", lines |-> <<>>]

Last(s) == s[Len(s)]
Range(s) == {s[i] : i \in 1..Len(s)}

Alphabet == {"a", "l", "A", "L", "x"}

CtorOptions ==
    UNION {[1..n -> Alphabet] : n \in 0..MaxArgLen}
    \cup {ModeAll, ModeObject, ModeProperties,
          <<"O", "b", "j", "e", "c", "t">>, <<"O", "B", "J", "E", "C", "T">>,
          <<"P", "r", "o", "p", "e", "r", "t", "i", "e", "s">>,
          <<"o", "b", "j", "e", "c", "t", "s">>, <<"n", "o", "n", "e">>}

InitCtor ==
    /\ pc = "start"
    /\ examples_as_yaml = FALSE
    /\ show_examples = <<>>
    /\ arg \in [as_yaml : BOOLEAN, option : CtorOptions]
    /\ ret = NoRet
    /\ new_lines = <<>>

\* parser = Parser(examples_as_yaml=..., show_examples=...)
Construct ==
    /\ pc = "start"
    /\ LET r == Parser_init(arg.as_yaml, arg.option)
       IN  /\ examples_as_yaml' = (r.err = "none" /\ r.examples_as_yaml)
           /\ show_examples' = r.show_examples
           /\ ret' = [err |-> r.err, lines |-> <<>>]
    /\ pc' = "done"
    /\ UNCHANGED <<arg, new_lines>>

NextCtor == Construct

SpecCtor == InitCtor /\ [][NextCtor]_vars

IsValidOption(s) == s \in {ModeAll, ModeObject, ModeProperties}

\* C7 as stated: construction succeeds, and stores the value passed, exactly
\* for the three values "all", "object", "properties"; every other string
\* fails with a ValueError.
C7_ExactValuesOnly ==
    pc = "done" =>
        /\ ret.err = "none" <=> IsValidOption(arg.option)
        /\ ret.err = "none" => show_examples = arg.option
        /\ ret.err # "none" => ret.err = "ValueError"

\* C7 amended: construction succeeds exactly when the value, lowercased, is
\* one of "all", "object", "properties", and then stores the lowercased
\* value; every other string fails with a ValueError and leaves no parser.
C7_CaseInsensitiveValidation ==
    pc = "done" =>
        /\ ret.err = "none" <=> IsValidOption(lower(arg.option))
        /\ ret.err = "none" =>
              /\ show_examples = lower(arg.option)
              /\ examples_as_yaml = arg.as_yaml
        /\ ret.err # "none" => ret.err = "ValueError" /\ show_examples = <<>>

\* An upper-case spelling was accepted and stored in lower case.
C7_Witness ==
    /\ pc = "done"
    /\ ret.err = "none"
    /\ arg.option = <<"A", "L", "L">>
    /\ show_examples = ModeAll

----------------------------------------------------------------------------
(* Appending lines *)

LineBodies ==
    {<<"-", " ", "x", "\n">>, <<"*", " ", "x", "\n">>, <<"-", "x", "\n">>,
     <<"Examples:", "\n">>, <<FENCE, "\n", "\n">>}

AppendLines ==
    {Spaces(tab_size * n) \o b : n \in 0..MaxIndent, b \in LineBodies}
    \cup {ExamplesHeader(Spaces(tab_size * n)) : n \in 0..MaxIndent}

InitAppend ==
    /\ pc = "start"
    /\ examples_as_yaml = FALSE
    /\ show_examples = ModeAll
    /\ arg = <<>>
    /\ ret = NoRet
    /\ new_lines \in {<<>>} \cup {<<l>> : l \in AppendLines}

\* parser.append_line(line, new_lines)
AppendLine ==
    /\ Len(new_lines) < MaxLines
    /\ \E line \in AppendLines :
        /\ new_lines' = append_line(line, new_lines)
        /\ arg' = line
    /\ UNCHANGED <<pc, examples_as_yaml, show_examples, ret>>

NextAppend == AppendLine

SpecAppend == InitAppend /\ [][NextAppend]_vars

\* The width of the leading whitespace of a line.
IndentWidth(line) ==
    LET k == {i \in 1..Len(line) : ~IsWs(line[i])}
    IN  IF k = {} THEN Len(line) ELSE (CHOOSE i \in k : \A j \in k : i <= j) - 1

\* The line, after its indentation, starts with "- " or "* ".
IsBulletItem(line) ==
    LET w == IndentWidth(line)
    IN  /\ Len(line) >= w + 2
        /\ line[w + 1] \in {"-", "*"}
        /\ line[w + 2] = " "

\* What a call that appended to a non-empty list added to it.
Added == SubSeq(new_lines', Len(new_lines) + 1, Len(new_lines'))

\* C2 as stated: appending to a non-empty list inserts exactly one blank line
\* first if and only if the indentation widths differ and the previous line is
\* not a bullet item; otherwise the line alone is added.
C2_BlankUnlessBullet ==
    [][new_lines # <<>> =>
          LET prev == Last(new_lines)
              line == arg'
          IN  /\ SubSeq(new_lines', 1, Len(new_lines)) = new_lines
              /\ Added = IF IndentWidth(prev) # IndentWidth(line) /\ ~IsBulletItem(prev)
                         THEN <<BlankLine, line>> ELSE <<line>>]_vars

\* C2 amended: appending to a non-empty list inserts exactly one blank line
\* first if and only if the leading-whitespace widths differ and the previous
\* line is a bullet item; otherwise (equal widths, or a previous line that is
\* no bullet) the line alone is added.
C2_BlankAfterBullet ==
    [][new_lines # <<>> =>
          LET prev == Last(new_lines)
              line == arg'
          IN  /\ SubSeq(new_lines', 1, Len(new_lines)) = new_lines
              /\ Added = IF IndentWidth(prev) # IndentWidth(line) /\ IsBulletItem(prev)
                         THEN <<BlankLine, line>> ELSE <<line>>]_vars

\* A blank line was inserted between a bullet and a line of another width.
C2_Witness ==
    /\ Len(new_lines) >= 3
    /\ new_lines[Len(new_lines)] = arg
    /\ new_lines[Len(new_lines) - 1] = BlankLine
    /\ IsBulletItem(new_lines[Len(new_lines) - 2])
    /\ IndentWidth(new_lines[Len(new_lines) - 2]) # IndentWidth(arg)

----------------------------------------------------------------------------
(* Describing one node *)

S(text) == JStr(<<text>>)

\* A keyword that is absent, or present with one of vals.
OptPair(key, vals) == {<<>>} \cup {<<<<key, v>>>> : v \in vals}

TypedLeaf == JDict(<<<<"type", S("string")>>>>)

ExtraValues == {JBool(TRUE), JBool(FALSE), JDict(<<>>), TypedLeaf}

DescribedObjects ==
    {JDict(d \o t \o lo \o hi \o a \o u) :
        d \in OptPair("description",
                      {S("d"), JStr(<<"d", ".">>), JStr(<<"p", "\n", "\n", "q", "?">>)}),
        t \in OptPair("type", {S("string")}),
        lo \in OptPair("minItems", {JInt(2)}),
        hi \in OptPair("maxItems", {JInt(2), JInt(3)}),
        a \in OptPair("additionalProperties", ExtraValues),
        u \in OptPair("unevaluatedProperties", ExtraValues)}
    \cup
    {JDict(a \o b \o c \o d \o e \o f \o g \o h) :
        a \in OptPair("minimum", {JInt(1)}),
        b \in OptPair("exclusiveMinimum", {JInt(0)}),
        c \in OptPair("maximum", {JInt(8)}),
        d \in OptPair("exclusiveMaximum", {JInt(9)}),
        e \in OptPair("enum", {JList(<<S("u"), JInt(1)>>)}),
        f \in OptPair("const", {JBool(TRUE)}),
        g \in OptPair("$ref", {JStr(<<".", "/", "common", "/", "address", ".json">>),
                               JStr(<<"#", "/", "definitions", "/", "my type">>)}),
        h \in OptPair("default", {JDict(<<<<"k", JInt(1)>>>>)})}

InitDescr ==
    /\ pc = "start"
    /\ examples_as_yaml = FALSE
    /\ show_examples = ModeAll
    /\ arg \in [obj : DescribedObjects, add_type : BOOLEAN]
    /\ ret = NoRet
    /\ new_lines = <<>>

\* parser._construct_description_line(obj, add_type)
Describe ==
    /\ pc = "start"
    /\ ret' = Ok(_construct_description_line(arg.obj, arg.add_type))
    /\ pc' = "done"
    /\ UNCHANGED <<examples_as_yaml, show_examples, arg, new_lines>>

NextDescr == Describe

SpecDescr == InitDescr /\ [][NextDescr]_vars

CanSentence(extra_props) == <<"Can contain ", extra_props, " properties", ".">>
CannotSentence(extra_props) == <<"Cannot contain ", extra_props, " properties", ".">>

IsBoolean(obj, key, b) == Has(obj, key) /\ Get(obj, key).k = "bool" /\ Get(obj, key).v = b

\* C9: for additionalProperties and unevaluatedProperties, the "Can contain"
\* sentence is among the sentences exactly when the keyword is the boolean
\* true, the "Cannot contain" sentence exactly when it is the boolean false,
\* and neither when the keyword is absent or is an object.
C9_SentenceOnlyForBooleans ==
    pc = "done" =>
        \A extra_props \in {"additional", "unevaluated"} :
            LET key == extra_props \o "Properties"
            IN  /\ CanSentence(extra_props) \in Range(ret.lines)
                    <=> IsBoolean(arg.obj, key, TRUE)
                /\ CannotSentence(extra_props) \in Range(ret.lines)
                    <=> IsBoolean(arg.obj, key, FALSE)

----------------------------------------------------------------------------
(* The schemas drawn *)

Examples1 == <<"examples", JList(<<JInt(1)>>)>>
RootExamples == <<"examples", JList(<<JInt(0), JInt(0)>>)>>

EmptyLeaf == JDict(<<>>)
ExampleLeaf == JDict(<<<<"type", S("string")>>, Examples1>>)
UntypedExampleLeaf == JDict(<<<<"description", S("u")>>, Examples1>>)
Leaves == {EmptyLeaf, TypedLeaf, ExampleLeaf, UntypedExampleLeaf}

Names(keys) == JList([i \in 1..Len(keys) |-> S(keys[i])])

ObjectNodes ==
    {JDict(<<<<"type", S("object")>>,
             <<"properties", JDict(<<<<"c", TypedLeaf>>, <<"d", ExampleLeaf>>>>)>>>> \o r) :
        r \in OptPair("required", {Names(<<"c">>), Names(<<"d", "c">>), Names(<<>>)})}

PatternNode ==
    JDict(<<<<"type", S("object")>>,
            <<"patternProperties", JDict(<<<<"^x", TypedLeaf>>, <<"^y", TypedLeaf>>>>)>>,
            <<"required", Names(<<"^x">>)>>>>)

CompositionNodes ==
    {JDict(<<<<kw, JList(<<TypedLeaf, ExampleLeaf>>)>>>>) : kw \in {"allOf", "anyOf", "oneOf"}}

ItemsNodes ==
    {JDict(<<<<"type", S("array")>>, <<"items", v>>>>) :
        v \in {TypedLeaf, ExampleLeaf, JList(<<TypedLeaf, ExampleLeaf>>), JInt(5)}}

DefinitionsNodes ==
    {JDict(<<<<kw, JDict(<<<<"X", v>>>>)>>>>) :
        kw \in {"definitions", "$defs"}, v \in {TypedLeaf, ExampleLeaf, JInt(5)}}

ExtraNodes ==
    {JDict(<<<<kw, v>>>>) :
        kw \in {"additionalProperties", "unevaluatedProperties"},
        v \in ExtraValues \cup {ExampleLeaf}}

BadPropertyNodes ==
    {JDict(<<<<kw, JDict(<<<<"c", TypedLeaf>>, <<"d", JInt(5)>>>>)>>>>) :
        kw \in {"properties", "patternProperties"}}

FullNode ==
    JDict(<<<<"type", S("object")>>,
            <<"description", S("full")>>,
            <<"patternProperties", JDict(<<<<"^x", TypedLeaf>>>>)>>,
            <<"properties", JDict(<<<<"d", ExampleLeaf>>, <<"c", TypedLeaf>>>>)>>,
            <<"required", Names(<<"c">>)>>,
            <<"unevaluatedProperties", JDict(<<<<"type", S("u")>>>>)>>,
            <<"additionalProperties", JDict(<<<<"type", S("a")>>>>)>>,
            <<"$defs", JDict(<<<<"Y", TypedLeaf>>>>)>>,
            <<"definitions", JDict(<<<<"X", TypedLeaf>>>>)>>,
            <<"items", JDict(<<<<"type", S("i")>>>>)>>,
            <<"oneOf", JList(<<JDict(<<<<"type", S("o")>>>>)>>)>>,
            <<"anyOf", JList(<<JDict(<<<<"type", S("n")>>>>), ExampleLeaf>>)>>,
            <<"allOf", JList(<<JDict(<<<<"type", S("l")>>>>)>>)>>,
            Examples1>>)

ListNodes == {JList(<<TypedLeaf, ExampleLeaf>>), JList(<<JInt(1)>>), JList(<<>>)}

MidNodes ==
    ObjectNodes \cup {PatternNode, FullNode} \cup CompositionNodes \cup ItemsNodes
        \cup DefinitionsNodes \cup ExtraNodes \cup BadPropertyNodes

DeepNodes ==
    {JDict(<<<<"properties", JDict(<<<<"p", m>>>>)>>, <<"required", Names(<<"p">>)>>>>) :
        m \in MidNodes}

\* Every value met where a schema node is expected.
AllNodes == Leaves \cup MidNodes \cup DeepNodes \cup ListNodes \cup {JInt(5)}

\* The injective sequences of length at most n over the set keys.
RECURSIVE KeySeqs(_, _)
KeySeqs(keys, n) ==
    IF n = 0 THEN {<<>>}
    ELSE {<<>>} \cup {<<k>> \o rest : k \in keys, rest \in KeySeqs(keys, n - 1)}

Injective(s) == \A i, j \in 1..Len(s) : s[i] = s[j] => i = j

PropertyNames == <<"a", "b", "c", "d">>
FirstNames(n) == {PropertyNames[i] : i \in 1..(IF n < 4 THEN n ELSE 4)}

\* The mappings of at most MaxProps entries, in every insertion order.
Mappings ==
    UNION {{JDict([i \in 1..Len(ks) |-> <<ks[i], vs[i]>>]) :
                vs \in [1..Len(ks) -> {TypedLeaf, EmptyLeaf}]} :
           ks \in {q \in KeySeqs(FirstNames(MaxProps), MaxProps) : Injective(q)}}

RequiredArrays == {Names(<<"a">>), Names(<<"b">>), Names(<<"b", "a">>)}

Branches ==
    {JDict(<<<<"properties", JDict(<<<<"e", TypedLeaf>>>>)>>>>),
     JDict(<<<<"properties", JDict(<<<<"f", ExampleLeaf>>>>)>>,
             <<"required", Names(<<"f">>)>>>>),
     JDict(<<<<"type", S("object")>>>>),
     JDict(<<<<"properties", JDict(<<>>)>>>>),
     JDict(<<<<"allOf", JList(<<JDict(<<<<"properties", JDict(<<<<"g", TypedLeaf>>>>)>>>>)>>)>>,
             <<"properties", JDict(<<<<"h", TypedLeaf>>>>)>>,
             <<"patternProperties", JDict(<<<<"^z", TypedLeaf>>>>)>>,
             <<"items", TypedLeaf>>>>)}

BranchLists == {JList(bs) : bs \in UNION {[1..n -> Branches] : n \in 1..MaxBranches}}

\* One construct at the root, holding any node.
SingleRoots ==
    {JDict(<<<<kw, JDict(<<<<"k", v>>>>)>>>>) :
        kw \in {"properties", "patternProperties", "definitions", "$defs"}, v \in AllNodes}
    \cup {JDict(<<<<kw, v>>>>) :
        kw \in {"items", "additionalProperties", "unevaluatedProperties"}, v \in AllNodes}
    \cup {JDict(<<<<"properties", JDict(<<<<"a", TypedLeaf>>, <<"k", v>>>>)>>,
                  <<"required", Names(<<"k">>)>>>>) : v \in AllNodes}
    \cup {JDict(<<<<"properties", JDict(<<<<"type", TypedLeaf>>,
                                           <<"required", JDict(<<<<"type", S("array")>>>>)>>>>)>>>>),
          JDict(<<<<"anyOf", JList(<<JDict(<<<<"properties", JDict(<<<<"a", TypedLeaf>>>>)>>,
                                            Examples1>>)>>)>>>>)}

\* Every combination of the root's constructs, present or absent.
SectionRoots ==
    {JDict(t \o i \o a \o u \o pp \o p \o d \o dd \o e \o ao) :
        t \in OptPair("title", {S("T")}),
        i \in OptPair("items", {TypedLeaf}),
        a \in OptPair("additionalProperties", {TypedLeaf, JBool(FALSE)}),
        u \in OptPair("unevaluatedProperties", {ExampleLeaf}),
        pp \in OptPair("patternProperties", {JDict(<<<<"^x", TypedLeaf>>>>)}),
        p \in OptPair("properties", {JDict(<<<<"a", ExampleLeaf>>>>)}),
        d \in OptPair("definitions", {JDict(<<<<"X", TypedLeaf>>, <<"W", EmptyLeaf>>>>)}),
        dd \in OptPair("$defs", {JDict(<<<<"Y", ExampleLeaf>>>>)}),
        e \in {<<>>, <<RootExamples>>},
        ao \in OptPair("allOf", {JList(<<CHOOSE b \in Branches : Has(b, "items")>>)})}

\* What the root and its allOf branches contribute to the Properties section.
GatherRoots ==
    {JDict(<<<<"description", S("g")>>>> \o p \o r \o ao) :
        p \in OptPair("properties", Mappings),
        r \in OptPair("required", RequiredArrays),
        ao \in OptPair("allOf", {JList(<<CHOOSE b \in Branches : Has(b, "required")>>)})}
    \cup
    {JDict(p \o ao \o dd) :
        p \in OptPair("properties", {JDict(<<<<"a", TypedLeaf>>>>)}),
        ao \in OptPair("allOf", BranchLists),
        dd \in OptPair("definitions", {JDict(<<<<"X", TypedLeaf>>>>)})}

RootSchemas == SingleRoots \cup SectionRoots \cup GatherRoots

Modes == {ModeAll, ModeObject, ModeProperties}

----------------------------------------------------------------------------
(* Converting a schema *)

Init ==
    /\ pc = "start"
    /\ examples_as_yaml \in BOOLEAN
    /\ show_examples \in Modes
    /\ arg \in RootSchemas
    /\ ret = NoRet
    /\ new_lines = <<>>

\* md_lines = parser.parse_schema(schema)
ParseSchema ==
    /\ pc = "start"
    /\ ret' = parse_schema(arg)
    /\ pc' = "done"
    /\ UNCHANGED <<examples_as_yaml, show_examples, arg, new_lines>>

Next == ParseSchema

Spec == Init /\ [][Next]_vars

Returned == pc = "done" /\ ret.err = "none"

----------------------------------------------------------------------------
(* Reading the output and the schema *)

RECURSIVE Sum(_)
Sum(ns) == IF ns = <<>> THEN 0 ELSE Head(ns) + Sum(Tail(ns))

Min(ns) == CHOOSE n \in ns : \A m \in ns : n <= m

\* The values of a mapping, in insertion order.
Values(mapping) == [i \in 1..Len(mapping.v) |-> mapping.v[i][2]]

IsSectionHeader(line) == line # <<>> /\ line[1] = "##"
HeaderTitle(line) == line[3]
HeaderIndexes(title) == {i \in 1..Len(ret.lines) : ret.lines[i] = Header(title)}

IsTopEntry(line) == IsBulletItem(line) /\ IndentWidth(line) = 0
HasAnchor(line) == \E i \in 1..Len(line) : line[i] = "<a id=\""
IsPropertyEntry(line) == IsTopEntry(line) /\ ~HasAnchor(line)
HasMarker(line) == \E i \in 1..Len(line) : line[i] = RequiredMarker
IsExampleBlock(line) == lstrip(line) # <<>> /\ Head(lstrip(line)) = FENCE
IsExamplesSubHeader(line) == \E i \in 1..Len(line) : line[i] = "Examples:"

\* The name a bullet line shows in bold, "" when it shows none.
NameOf(line) ==
    LET at == {i \in 1..Len(line) : line[i] = "**"}
    IN  IF at = {} THEN ""
        ELSE LET i == Min(at)
             IN  IF line[i + 1] = BT THEN line[i + 2] ELSE line[i + 1]

\* The objects that contribute a properties group to the root: the root, then
\* its allOf branches, depth first in branch order.
RECURSIVE PropertyHolders(_)
PropertyHolders(obj) ==
       (IF Has(obj, "properties") THEN <<obj>> ELSE <<>>)
    \o (IF Has(obj, "allOf")
        THEN Flatten([i \in 1..Len(Get(obj, "allOf").v) |->
                        PropertyHolders(Get(obj, "allOf").v[i])])
        ELSE <<>>)

\* The values of keyword on the root and on its allOf branches.
RECURSIVE Gathered(_, _)
Gathered(obj, keyword) ==
       (IF Has(obj, keyword) THEN <<Get(obj, keyword)>> ELSE <<>>)
    \o (IF Has(obj, "allOf")
        THEN Flatten([i \in 1..Len(Get(obj, "allOf").v) |->
                        Gathered(Get(obj, "allOf").v[i], keyword)])
        ELSE <<>>)

Present(obj, keywords) ==
    Flatten([i \in 1..Len(keywords) |->
                IF Has(obj, keywords[i]) THEN <<Get(obj, keywords[i])>> ELSE <<>>])

ObjectValued(values) ==
    Flatten([i \in 1..Len(values) |-> IF isdict(values[i]) THEN <<values[i]>> ELSE <<>>])

\* The nodes documented below a node: composition branches, items,
\* definitions, $defs, object-valued extra properties, properties and pattern
\* properties; the elements of a list.
DocumentedChildren(node) ==
    IF islist(node) THEN node.v
    ELSE IF ~isdict(node) THEN <<>>
    ELSE Flatten([i \in 1..Len(Present(node, <<"allOf", "anyOf", "oneOf">>)) |->
                    Present(node, <<"allOf", "anyOf", "oneOf">>)[i].v])
         \o Present(node, <<"items", "definitions", "$defs">>)
         \o ObjectValued(Present(node, <<"additionalProperties", "unevaluatedProperties">>))
         \o Flatten([i \in 1..Len(Present(node, <<"properties", "patternProperties">>)) |->
                    Values(Present(node, <<"properties", "patternProperties">>)[i])])

\* The nodes documented at the top level of the document.
DocumentedRootNodes(schema) ==
       Gathered(schema, "items")
    \o ObjectValued(Present(schema, <<"additionalProperties", "unevaluatedProperties">>))
    \o Flatten([i \in 1..Len(Gathered(schema, "patternProperties")) |->
                    Values(Gathered(schema, "patternProperties")[i])])
    \o Flatten([i \in 1..Len(Gathered(schema, "properties")) |->
                    Values(Gathered(schema, "properties")[i])])
    \o Flatten([i \in 1..Len(Present(schema, <<"definitions", "$defs">>)) |->
                    Values(Present(schema, <<"definitions", "$defs">>)[i])])

\* The examples of a documented node and of the nodes documented below it.
RECURSIVE DocumentedExamples(_)
DocumentedExamples(node) ==
    (IF isdict(node) /\ Has(node, "examples") THEN Len(Get(node, "examples").v) ELSE 0)
    + Sum([i \in 1..Len(DocumentedChildren(node)) |->
                DocumentedExamples(DocumentedChildren(node)[i])])

\* Every object anywhere in a value.
RECURSIVE Objects(_)
Objects(x) ==
    IF isdict(x) THEN {x} \cup UNION {Objects(x.v[i][2]) : i \in 1..Len(x.v)}
    ELSE IF islist(x) THEN UNION {Objects(x.v[i]) : i \in 1..Len(x.v)}
    ELSE {}

\* name is listed in the required array of obj
Listed(name, obj) ==
    /\ Has(obj, "required")
    /\ islist(Get(obj, "required"))
    /\ \E i \in 1..Len(Get(obj, "required").v) : Get(obj, "required").v[i] = S(name)

----------------------------------------------------------------------------
(* Claims about parse_schema *)

PropertyEntriesAfter(i) ==
    SelectSeq(SubSeq(ret.lines, i + 1, Len(ret.lines)), IsPropertyEntry)

\* C3: the Properties header is in the output once when the root or an allOf
\* branch (transitively) has properties and not at all otherwise; the entries
\* under it are the keys of the root's group, then those of the branches depth
\* first in branch order, and none of them stands before the header.
C3_PropertiesGatheredOnce ==
    Returned =>
        LET holders == PropertyHolders(arg)
            expected == Flatten([i \in 1..Len(holders) |->
                                    Keys(Get(holders[i], "properties"))])
            at == HeaderIndexes("Properties")
        IN  IF holders = <<>> THEN at = {}
            ELSE /\ Cardinality(at) = 1
                 /\ LET entries == PropertyEntriesAfter(Min(at))
                    IN  [j \in 1..Len(entries) |-> NameOf(entries[j])] = expected
                 /\ \A j \in 1..(Min(at) - 1) :
                        IsPropertyEntry(ret.lines[j])
                            => NameOf(ret.lines[j]) \notin Range(expected)

\* Properties of the root and of a nested allOf branch were gathered.
C3_Witness ==
    /\ Returned
    /\ Has(arg, "properties")
    /\ Len(PropertyHolders(arg)) >= 3
    /\ Cardinality(HeaderIndexes("Properties")) = 1
    /\ Len(PropertyEntriesAfter(Min(HeaderIndexes("Properties")))) >= 3

CountLines(from, to, Test(_)) ==
    Cardinality({i \in from..to : Test(ret.lines[i])})

LinesNamed(name, top) ==
    {i \in 1..Len(ret.lines) :
        /\ IsBulletItem(ret.lines[i])
        /\ NameOf(ret.lines[i]) = name
        /\ (IndentWidth(ret.lines[i]) = 0) = top}

TypedEntries(mapping) ==
    {i \in 1..Len(mapping.v) : isdict(mapping.v[i][2]) /\ Has(mapping.v[i][2], "type")}

\* C1: every typed property of the root, of a gathered allOf branch or of a
\* nested object has the required marker on its line if its key is listed in
\* the required array of the object that holds the properties, and has none
\* if it is not.
C1_RequiredPropagation ==
    Returned =>
        /\ \A h \in Range(PropertyHolders(arg)) :
            \A e \in TypedEntries(Get(h, "properties")) :
                LET key == Get(h, "properties").v[e][1]
                IN  /\ LinesNamed(key, TRUE) # {}
                    /\ \A i \in LinesNamed(key, TRUE) :
                            HasMarker(ret.lines[i]) <=> Listed(key, h)
        /\ \A node \in UNION {Objects(n) : n \in Range(DocumentedRootNodes(arg))} :
            Has(node, "properties") /\ isdict(Get(node, "properties")) =>
                \A e \in TypedEntries(Get(node, "properties")) :
                    LET key == Get(node, "properties").v[e][1]
                    IN  \E i \in LinesNamed(key, FALSE) :
                            HasMarker(ret.lines[i]) <=> Listed(key, node)

\* C8: a line carries the required marker only if it is the line of a key of
\* some object's properties mapping and that object's required array lists
\* the key.
C8_MarkerOnlyFromRequired ==
    Returned =>
        \A i \in 1..Len(ret.lines) :
            HasMarker(ret.lines[i]) =>
                \E node \in Objects(arg) :
                    /\ Has(node, "properties")
                    /\ isdict(Get(node, "properties"))
                    /\ Has(Get(node, "properties"), NameOf(ret.lines[i]))
                    /\ Listed(NameOf(ret.lines[i]), node)

KnownTitles ==
    <<"Items", "Additional Properties", "Unevaluated Properties", "Pattern Properties",
      "Properties", "Examples">>

\* The titles the root's constructs call for, in the fixed order.
ExpectedTitles ==
       (IF Gathered(arg, "items") # <<>> THEN <<"Items">> ELSE <<>>)
    \o (IF Has(arg, "additionalProperties") /\ isdict(Get(arg, "additionalProperties"))
        THEN <<"Additional Properties">> ELSE <<>>)
    \o (IF Has(arg, "unevaluatedProperties") /\ isdict(Get(arg, "unevaluatedProperties"))
        THEN <<"Unevaluated Properties">> ELSE <<>>)
    \o (IF Gathered(arg, "patternProperties") # <<>> THEN <<"Pattern Properties">> ELSE <<>>)
    \o (IF Gathered(arg, "properties") # <<>> THEN <<"Properties">> ELSE <<>>)
    \o (IF Has(arg, "examples") /\ show_examples \in {ModeAll, ModeObject}
        THEN <<"Examples">> ELSE <<>>)

IsKnownHeader(line) == IsSectionHeader(line) /\ HeaderTitle(line) \in Range(KnownTitles)

\* The last title or section header above line i.
HeadingAbove(i) ==
    LET above == {j \in 1..(i - 1) : ret.lines[j] # <<>> /\ ret.lines[j][1] \in {"#", "##"}}
    IN  ret.lines[CHOOSE j \in above : \A m \in above : m <= j]

\* C4: the sections come in the fixed order, each present construct under a
\* header of its own that is emitted once, the entries of definitions and
\* $defs included.
C4_SectionsInOrderWithHeaders ==
    Returned =>
        /\ LET known == SelectSeq(ret.lines, IsKnownHeader)
           IN  [j \in 1..Len(known) |-> HeaderTitle(known[j])] = ExpectedTitles
        /\ \A i \in 1..Len(ret.lines) :
            HasAnchor(ret.lines[i]) =>
                /\ IsSectionHeader(HeadingAbove(i))
                /\ ~IsKnownHeader(HeadingAbove(i))

IsNode(x) == isdict(x) \/ islist(x)

\* Some properties, patternProperties or definitions mapping, at any depth,
\* has an entry that is neither an object nor a list.
HasMalformedEntry(schema) ==
    \E node \in Objects(schema) :
        \E keyword \in {"properties", "patternProperties", "definitions"} :
            /\ Has(node, keyword)
            /\ isdict(Get(node, keyword))
            /\ \E i \in 1..Len(Get(node, keyword).v) : ~IsNode(Get(node, keyword).v[i][2])

\* Every value standing where a node is expected is an object or a list.
RECURSIVE NodesOnly(_)
NodesOnly(x) ==
    IF islist(x) THEN \A i \in 1..Len(x.v) : NodesOnly(x.v[i])
    ELSE IF ~isdict(x) THEN FALSE
    ELSE /\ \A kw \in {"allOf", "anyOf", "oneOf"} :
                Has(x, kw) => \A i \in 1..Len(Get(x, kw).v) : NodesOnly(Get(x, kw).v[i])
         /\ Has(x, "items") => NodesOnly(Get(x, "items"))
         /\ \A kw \in {"additionalProperties", "unevaluatedProperties"} :
                Has(x, kw) /\ Get(x, kw).k # "bool" => NodesOnly(Get(x, kw))
         /\ \A kw \in {"properties", "patternProperties", "definitions", "$defs"} :
                Has(x, kw) =>
                    \A i \in 1..Len(Get(x, kw).v) : NodesOnly(Get(x, kw).v[i][2])

\* C6: the conversion fails with a TypeError whenever an entry of a
\* properties, patternProperties or definitions mapping, at the root or in a
\* nested node, is neither an object nor a list; a schema whose nodes are all
\* objects or lists never fails.
C6_MalformedEntryFails ==
    pc = "done" =>
        /\ HasMalformedEntry(arg) => ret.err = "TypeError" /\ ret.lines = <<>>
        /\ NodesOnly(arg) => ret.err = "none"

----------------------------------------------------------------------------
(* Walking one node *)

Prefixes ==
    {<<>>,
     <<<<"-", " ", "**", "before", "**", "\n">>>>,
     <<Header("Items"), Spaces(tab_size) \o <<FENCE, "\n", "\n">>>>}

InitWalk ==
    /\ pc = "start"
    /\ examples_as_yaml = FALSE
    /\ show_examples \in Modes
    /\ arg \in [obj : AllNodes, name : {<<>>, <<"n">>}, parsed_lines : Prefixes,
                indent_level : 0..MaxIndent, required : BOOLEAN]
    /\ ret = NoRet
    /\ new_lines = <<>>

\* parsed_lines = parser._parse_object(obj, name, parsed_lines=..., indent_level=...)
Walk ==
    /\ pc = "start"
    /\ ret' = _parse_object(arg.obj, arg.name, TRUE, arg.parsed_lines,
                            arg.indent_level, <<>>, arg.required)
    /\ pc' = "done"
    /\ UNCHANGED <<examples_as_yaml, show_examples, arg, new_lines>>

NextWalk == Walk

SpecWalk == InitWalk /\ [][NextWalk]_vars

\* The depth a line is indented to.
LevelOf(line) ==
    Cardinality({i \in 1..IndentWidth(line) : line[i] = " "}) \div tab_size

\* What a line is: a named bullet, an unnamed bullet (told by its type), the
\* "Examples:" line or an example block.
LabelOf(line) ==
    LET w == IndentWidth(line)
    IN  IF IsExampleBlock(line) THEN "<block>"
        ELSE IF IsExamplesSubHeader(line) THEN "Examples:"
        ELSE IF NameOf(line) # "" THEN NameOf(line)
        ELSE IF Len(line) >= w + 4 /\ line[w + 3] = "*" THEN line[w + 4]
        ELSE ""

Entry(level, label) == [level |-> level, label |-> label]

Outline(lines) ==
    LET kept == SelectSeq(lines, LAMBDA l : l # BlankLine)
    IN  [i \in 1..Len(kept) |-> Entry(LevelOf(kept[i]), LabelOf(kept[i]))]

OwnLabel(node, name) ==
    IF name # <<>> THEN name[1]
    ELSE IF Has(node, "type") THEN Get(node, "type").v[1]
    ELSE ""

\* The outline the traversal order calls for: the node's own line, then the
\* compositions (a label one level down, the branches two levels down), then
\* items, definitions, $defs, then the object-valued extra properties, then
\* the properties and the pattern properties in insertion order, all one
\* level down, then the node's own examples.
RECURSIVE ExpectedOutline(_, _, _)
ExpectedOutline(node, name, d) ==
    IF islist(node)
    THEN <<Entry(d, NameText(name))>>
         \o Flatten([i \in 1..Len(node.v) |-> ExpectedOutline(node.v[i], <<>>, d + 1)])
    ELSE LET composition(kw, label) ==
                IF Has(node, kw)
                THEN <<Entry(d + 1, label)>>
                     \o Flatten([i \in 1..Len(Get(node, kw).v) |->
                            ExpectedOutline(Get(node, kw).v[i], <<>>, d + 2)])
                ELSE <<>>
             child(kw, shown) ==
                IF Has(node, kw)
                THEN ExpectedOutline(Get(node, kw), <<shown>>, d + 1)
                ELSE <<>>
             extra(kw, shown) ==
                IF Has(node, kw) /\ isdict(Get(node, kw))
                THEN ExpectedOutline(Get(node, kw), <<shown>>, d + 1)
                ELSE <<>>
             entries(kw) ==
                IF Has(node, kw)
                THEN Flatten([i \in 1..Len(Get(node, kw).v) |->
                        ExpectedOutline(Get(node, kw).v[i][2], <<Get(node, kw).v[i][1]>>,
                                        d + 1)])
                ELSE <<>>
         IN     <<Entry(d, OwnLabel(node, name))>>
             \o composition("allOf", "All of")
             \o composition("anyOf", "Any of")
             \o composition("oneOf", "One of")
             \o child("items", "Items")
             \o child("definitions", "Definitions")
             \o child("$defs", "$defs")
             \o extra("additionalProperties", "Additional properties")
             \o extra("unevaluatedProperties", "Unevaluated properties")
             \o entries("properties")
             \o entries("patternProperties")
             \o (IF Has(node, "examples") /\ show_examples \in {ModeAll, ModeProperties}
                 THEN <<Entry(d, "Examples:")>>
                      \o [i \in 1..Len(Get(node, "examples").v) |-> Entry(d, "<block>")]
                 ELSE <<>>)

\* C10: the lines a call of _parse_object returns are the lines it was given,
\* unchanged, followed by the node's own line and then the lines of its
\* children in the fixed order, each at its depth.
C10_TraversalOrder ==
    Returned =>
        /\ Len(ret.lines) > Len(arg.parsed_lines)
        /\ SubSeq(ret.lines, 1, Len(arg.parsed_lines)) = arg.parsed_lines
        /\ Outline(SubSeq(ret.lines, Len(arg.parsed_lines) + 1, Len(ret.lines)))
            = ExpectedOutline(arg.obj, arg.name, arg.indent_level)

\* A node with every kind of child was walked behind lines already there.
C10_Witness ==
    /\ Returned
    /\ arg.obj = FullNode
    /\ arg.parsed_lines # <<>>
    /\ arg.indent_level = 1
    /\ show_examples = ModeAll

====
